---- MODULE Spec2Model ----
(***************************************************************************)
(* Model of the Bluesky firehose aggregator                                *)
(* (Bluesky_dashboard/aggregator/bsky/bsky.py): the reconnecting           *)
(* WebSocketClient, the bounded asyncio.Queue, the MessageProcessor        *)
(* workers with their single lock, and the shutdown sequence of main().    *)
(*                                                                         *)
(* asyncio runs every task on one thread, so the code between two awaits   *)
(* of a task is one atomic step: each action below is one such stretch.    *)
(* Task.cancel() marks the task; CancelledError is raised in it at the     *)
(* await where it is suspended, the next time it would run.                *)
(***************************************************************************)
EXTENDS Integers, Sequences, FiniteSets, TLC

\* ---------------------------------------------------------------- bounds
MaxQueue == 1        \* asyncio.Queue(maxsize=...), scaled down from 100000
NumWorkers == 2      \* size of the worker pool, scaled down from range(10)
MaxFails == 3        \* longest run of consecutive failed attempts explored

\* ------------------------------------------------------ program constants
NumUrls == 4         \* len(EXTERNAL_WS_URLS)
InitialDelay == 1    \* retry_delay = 1
BackoffCap == 60     \* min(retry_delay * 2, 60)
BackoffFactor == 2   \* retry_delay * 2
JitterScale == 2     \* delays are counted in 1/JitterScale seconds
Jitter == {0, JitterScale}  \* the extremes of random.uniform(0, 1)

Absent == "<absent>" \* a string key the JSON object does not have
NoTime == -1         \* an event without time_us

Workers == 1..NumWorkers
ClientTask == 0
Tasks == {ClientTask} \cup Workers

Min(a, b) == IF a <= b THEN a ELSE b

RECURSIVE Pow(_, _)
Pow(b, e) == IF e = 0 THEN 1 ELSE b * Pow(b, e - 1)

\* --------------------------------------------------------------- messages
\* kind "garbage": not JSON; "nonobject": JSON but not an object (data.get
\* raises AttributeError); "event": an object of the inbound schema.
\* An event without langs carries {}: record.get("langs", []) reads it as empty.
Garbage == [kind |-> "garbage", did |-> Absent, time_us |-> NoTime, cid |-> Absent, rkey |-> Absent, langs |-> {}, body |-> "x"]

NonObject == [kind |-> "nonobject", did |-> Absent, time_us |-> NoTime, cid |-> Absent, rkey |-> Absent, langs |-> {}, body |-> "x"]

Event(did, t, cid, langs, body) == [kind |-> "event", did |-> did, time_us |-> t, cid |-> cid, rkey |-> "xyz", langs |-> langs, body |-> body]

\* two posts with the same cid and different content, and one without cid
\* and without langs
PostEnFr == Event("a", 5, "c1", {"en", "fr"}, "x")

PostNl == Event("a", 5, "c1", {"nl"}, "y")

PostNoCid == Event("a", 5, Absent, {}, "x")

Messages == {Garbage, NonObject, PostEnFr, PostNl, PostNoCid}

\* the well-formed events
Posts == {m \in Messages : m.kind = "event"}

\* the payloads handle_message fails on, and one it can write
Faults == {Garbage, NonObject, PostEnFr}

\* Python's dict.get(key, default) on a string-valued key
Get(v, default) == IF v = Absent THEN default ELSE v

\* f"{data.get('time_us', '')}"
TimeStr(t) == IF t = NoTime THEN "" ELSE ToString(t)

\* a filter that wants every language of the event on the allow-list
AllLanguagesAllowed(allowed, langs) ==
  IF allowed = {} THEN TRUE
  ELSE \A lang \in langs : lang \in allowed

\* MessageProcessor.is_language_allowed
is_language_allowed(allowed, langs) ==
  IF allowed = {} THEN TRUE
  ELSE \E lang \in langs : lang \in allowed

\* an id that also depends on the content of the event
DocIdWithBody(data) ==
  IF data.cid # Absent /\ data.cid # ""
  THEN data.cid \o "_" \o data.body
  ELSE Get(data.did, "") \o "_" \o TimeStr(data.time_us) \o "_" \o data.body

\* the document id of MessageProcessor.index_data
DocId(data) ==
  IF data.cid # Absent /\ data.cid # ""
  THEN data.cid
  ELSE Get(data.did, "") \o "_" \o TimeStr(data.time_us)

\* post_url of MessageProcessor.process_message
PostUrl(data) ==
  "https://bsky.app/profile/" \o Get(data.did, "unknown") \o "/post/" \o Get(data.rkey, "unknown")

\* the enriched document handed to the sink
Enrich(data) == [event |-> data, post_url |-> PostUrl(data)]

\* AsyncElasticsearch.index(id=..., document=...): write or overwrite at id
Upsert(store, id, doc) == {d \in store : d.id # id} \cup {[id |-> id, doc |-> doc]}


\* ------------------------------------------------------------------ state
VARIABLES
  running,            \* WebSocketClient.running
  current_url_index,  \* WebSocketClient.current_url_index
  retry_delay,        \* local retry_delay of WebSocketClient.run
  delay,              \* local delay of run while it sleeps, in 1/JitterScale seconds
  cpc,                \* where the connection task is suspended
  citem,              \* the message connect_and_listen is putting, or NoItem
  cexc,               \* a CancelledError is propagating through run's finally
  queue,              \* asyncio.Queue: the items, oldest first
  unfinished,         \* asyncio.Queue._unfinished_tasks
  prunning,           \* MessageProcessor.running
  lock,               \* MessageProcessor.lock: 0 free, else the worker holding it
  waiters,            \* asyncio.Lock._waiters: workers suspended in acquire, FIFO
  wpc,                \* where each worker task is suspended
  witem,              \* the message each worker has in hand, or NoItem
  store,              \* the documents of the Elasticsearch index
  session_closes,     \* calls of aiohttp.ClientSession.close()
  es_closes,          \* calls of AsyncElasticsearch.close()
  mpc,                \* where main() is
  cancelReq,          \* tasks with a Task.cancel() not yet delivered
  language_filter,    \* MessageProcessor.language_filter
  env,                \* what the upstream will do in this run: a record as StreamEnv
  \* history, read by the properties only
  fails,              \* consecutive failed attempts / abnormal disconnects
  attempts,           \* endpoints of the last NumUrls connection attempts
  recvLog,            \* every message received from upstream, in order
  fate,               \* what became of each received message
  nwrites,            \* sink writes issued for each received message
  logged,             \* whether a log line reports the drop of each message
  lastWrite           \* the message of the latest sink write applied (0: none)

cvars == <<running, current_url_index, retry_delay, delay, cpc, citem, cexc>>
qvars == <<queue, unfinished>>
wvars == <<prunning, lock, waiters, wpc, witem, store>>
mvars == <<session_closes, es_closes, mpc>>
hcvars == <<fails, attempts>>
hmvars == <<fate, nwrites, logged, lastWrite>>
cfg == <<language_filter, env>>
vars == <<cvars, qvars, wvars, mvars, cancelReq, cfg, hcvars, recvLog, hmvars>>

NoItem == [n |-> 0, m |-> Garbage]

\* What the upstream does in a run.  recv: messages delivered; msgs: the
\* payloads they are drawn from; fails: consecutive failures; tries: attempts
\* that may end (NumUrls: all of them).
\* A burst of one message more than the queue holds, over a connection that
\* stays up:
StreamEnv == [recv |-> MaxQueue + 1, fails |-> 0, tries |-> 0, msgs |-> Messages]

\* An unreliable upstream: up to MaxFails consecutive failures, any number
\* of reconnects, a single message:
ReconnectEnv == [recv |-> 1, fails |-> MaxFails, tries |-> NumUrls, msgs |-> Messages]

\* A burst that goes on over a reconnect: the first two attempts may end,
\* one of them by a failure:
ResumeEnv == [recv |-> MaxQueue + 1, fails |-> 1, tries |-> 2, msgs |-> {Garbage, PostEnFr}]

\* An unreliable upstream that sends nothing:
SilentEnv == [recv |-> 0, fails |-> MaxFails, tries |-> NumUrls, msgs |-> {}]

\* the upstream may end the current attempt
MayEnd == env.tries = NumUrls \/ Len(attempts) <= env.tries
Seqnos == 1..(MaxQueue + 1)

InitWith(envs, filters) ==
  /\ running = TRUE
  /\ current_url_index = 0
  /\ retry_delay = InitialDelay
  /\ delay = 0
  /\ cpc = "start"
  /\ citem = NoItem
  /\ cexc = FALSE
  /\ queue = <<>>
  /\ unfinished = 0
  /\ prunning = TRUE
  /\ lock = 0
  /\ waiters = <<>>
  /\ wpc = [w \in Workers |-> "start"]
  /\ witem = [w \in Workers |-> NoItem]
  /\ store = {}
  /\ session_closes = 0
  /\ es_closes = 0
  /\ mpc = "running"
  /\ cancelReq = [t \in Tasks |-> FALSE]
  /\ language_filter \in filters
  /\ env \in envs
  /\ fails = 0
  /\ attempts = <<>>
  /\ recvLog = <<>>
  /\ fate = [n \in Seqnos |-> "none"]
  /\ nwrites = [n \in Seqnos |-> 0]
  /\ logged = [n \in Seqnos |-> FALSE]
  /\ lastWrite = 0

\* LANGUAGE_FILTER as shipped ([]: allow all) and with one language set
Init == InitWith({StreamEnv}, {{}, {"en"}})

\* a burst of well-formed events, with and without a language set
PostInit == InitWith({[StreamEnv EXCEPT !.msgs = Posts]}, {{}, {"en"}})

\* a burst with payloads that make handle_message fail
FaultInit == InitWith({[StreamEnv EXCEPT !.msgs = Faults]}, {{}})

\* a burst with a payload for every path of handle_message: malformed,
\* not an object, filtered out, written
MixedInit ==
  InitWith({[StreamEnv EXCEPT !.msgs = {Garbage, NonObject, PostNl, PostEnFr}]}, {{"en"}})

ConnInit == InitWith({ReconnectEnv}, {{}})

LoopInit == InitWith({SilentEnv}, {{}})

ResumeInit == InitWith({ResumeEnv}, {{}})

\* ------------------------------------------------------ WebSocketClient.run
\* a rotation that never reaches the last endpoint of the pool
NextIndexSkipsLast(i) == (i + 1) % (NumUrls - 1)

\* (self.current_url_index + 1) % len(self.urls)
NextIndex(i) == (i + 1) % NumUrls

\* min(retry_delay * 2, 60)
NextDelay(d) == Min(d * BackoffFactor, BackoffCap)

\* a reset of the backoff to no delay at all
DelayResetToZero(d) == InitialDelay - 1

\* retry_delay after connect_and_listen has returned to run (line 94)
DelayAfterReturn(d) == InitialDelay

\* a queue that takes one item more than maxsize
FullOffByOne(q) == Len(q) > MaxQueue

\* asyncio.Queue.full()
Full(q) == Len(q) >= MaxQueue

\* a put that stores the message twice
EnqueueTwice(q, it) == Append(Append(q, it), it)

\* asyncio.Queue.put_nowait: the item goes to the end of the queue
Enqueue(q, it) == Append(q, it)

\* the window of the last NumUrls attempted endpoints
Remember(as, i) == IF Len(as) < NumUrls THEN Append(as, i) ELSE Append(Tail(as), i)

\* a loop that gives up after two failures in a row
LoopTopGivesUp ==
  IF running /\ fails < 2
  THEN /\ cpc' = "connect"
       /\ attempts' = Remember(attempts, current_url_index)
  ELSE /\ cpc' = "done"
       /\ attempts' = attempts

\* a loop that never tests the flag ("while True")
LoopTopIgnoresStop ==
  /\ cpc' = "connect"
  /\ attempts' = Remember(attempts, current_url_index)

\* top of the while loop: test the flag, pick the endpoint, start to connect
LoopTop ==
  IF running
  THEN /\ cpc' = "connect"
       /\ attempts' = Remember(attempts, current_url_index)
  ELSE /\ cpc' = "done"
       /\ attempts' = attempts

\* The finally clause of run up to its sleep: rotate, compute the delay.
\* rd is retry_delay as the try statement left it.
Rotate(rd) ==
  /\ current_url_index' = NextIndex(current_url_index)
  /\ \E j \in Jitter : delay' = rd * JitterScale + j
  /\ retry_delay' = rd
  /\ cpc' = "sleep"

\* the connection task runs for the first time
ClientStart ==
  /\ cpc = "start" /\ ~cancelReq[ClientTask]
  /\ LoopTop
  /\ UNCHANGED <<running, current_url_index, retry_delay, delay, citem, cexc>>
  /\ UNCHANGED <<qvars, wvars, mvars, cancelReq, cfg, fails, recvLog, hmvars>>

\* websockets.connect succeeds: connect_and_listen enters its async for
ConnectOK ==
  /\ cpc = "connect" /\ ~cancelReq[ClientTask]
  /\ cpc' = "listen"
  /\ fails' = 0
  /\ UNCHANGED <<running, current_url_index, retry_delay, delay, citem, cexc>>
  /\ UNCHANGED <<qvars, wvars, mvars, cancelReq, cfg, attempts, recvLog, hmvars>>

\* websockets.connect fails: asyncio.TimeoutError is caught at line 115,
\* InvalidStatus and OSError at line 117; connect_and_listen returns, run
\* executes line 94 and its finally clause.
ConnectFail(kind) ==
  /\ cpc = "connect" /\ ~cancelReq[ClientTask]
  /\ MayEnd /\ fails < env.fails
  /\ fails' = fails + 1
  /\ Rotate(DelayAfterReturn(retry_delay))
  /\ UNCHANGED <<running, citem, cexc>>
  /\ UNCHANGED <<qvars, wvars, mvars, cancelReq, cfg, attempts, recvLog, hmvars>>

\* The stream ends while listening: a clean close ends the async for, a
\* ConnectionClosedError or any other exception is caught at line 117.
StreamEnd(kind) ==
  /\ cpc = "listen" /\ ~cancelReq[ClientTask]
  /\ MayEnd /\ (kind # "clean" => fails < env.fails)
  /\ fails' = IF kind = "clean" THEN fails ELSE fails + 1
  /\ Rotate(DelayAfterReturn(retry_delay))
  /\ UNCHANGED <<running, citem, cexc>>
  /\ UNCHANGED <<qvars, wvars, mvars, cancelReq, cfg, attempts, recvLog, hmvars>>

\* A message arrives; message_queue.put(message) enqueues it at once when
\* the queue is not full and suspends otherwise.
Receive(m) ==
  /\ cpc = "listen" /\ ~cancelReq[ClientTask]
  /\ Len(recvLog) < env.recv /\ m \in env.msgs
  /\ LET it == [n |-> Len(recvLog) + 1, m |-> m] IN
       /\ recvLog' = Append(recvLog, m)
       /\ IF Full(queue)
          THEN /\ cpc' = "put"
               /\ citem' = it
               /\ fate' = [fate EXCEPT ![it.n] = "inhand"]
               /\ UNCHANGED qvars
          ELSE /\ queue' = Enqueue(queue, it)
               /\ unfinished' = unfinished + 1
               /\ fate' = [fate EXCEPT ![it.n] = "queued"]
               /\ UNCHANGED <<cpc, citem>>
  /\ UNCHANGED <<running, current_url_index, retry_delay, delay, cexc>>
  /\ UNCHANGED <<wvars, mvars, cancelReq, cfg, hcvars, nwrites, logged, lastWrite>>

\* the suspended put resumes once the queue has room
PutResume ==
  /\ cpc = "put" /\ ~cancelReq[ClientTask]
  /\ ~Full(queue)
  /\ queue' = Enqueue(queue, citem)
  /\ unfinished' = unfinished + 1
  /\ fate' = [fate EXCEPT ![citem.n] = "queued"]
  /\ cpc' = "listen"
  /\ citem' = NoItem
  /\ UNCHANGED <<running, current_url_index, retry_delay, delay, cexc>>
  /\ UNCHANGED <<wvars, mvars, cancelReq, cfg, hcvars, recvLog, nwrites, logged, lastWrite>>

\* asyncio.sleep(delay) returns: line 106, then either the pending
\* CancelledError leaves run or the while loop tests the flag again.
SleepDone ==
  /\ cpc = "sleep" /\ ~cancelReq[ClientTask]
  /\ retry_delay' = NextDelay(retry_delay)
  /\ delay' = 0
  /\ IF cexc
     THEN cpc' = "cancelled" /\ attempts' = attempts
     ELSE LoopTop
  /\ UNCHANGED <<running, current_url_index, citem, cexc>>
  /\ UNCHANGED <<qvars, wvars, mvars, cancelReq, cfg, fails, recvLog, hmvars>>

\* CancelledError is raised in the connection task.  In connect_and_listen
\* it passes "except Exception" (line 117) and the except clauses of run,
\* so line 94 is skipped and the finally clause runs up to its sleep; a
\* message being put is lost.  Raised in the sleep of the finally clause,
\* or before the task ever ran, it ends the task.
ClientCancelled ==
  /\ cancelReq[ClientTask]
  /\ cpc \in {"start", "connect", "listen", "put", "sleep"}
  /\ cancelReq' = [cancelReq EXCEPT ![ClientTask] = FALSE]
  /\ IF cpc \in {"start", "sleep"}
     THEN /\ cpc' = "cancelled"
          /\ UNCHANGED <<current_url_index, retry_delay, delay, citem, cexc, fate>>
     ELSE /\ Rotate(retry_delay)
          /\ cexc' = TRUE
          /\ citem' = NoItem
          /\ fate' = IF cpc = "put" THEN [fate EXCEPT ![citem.n] = "lost"] ELSE fate
  /\ UNCHANGED <<running, qvars, wvars, mvars, cfg, hcvars, recvLog, nwrites, logged, lastWrite>>


\* -------------------------------------------------------- MessageProcessor
\* a worker loop that never tests the flag ("while True")
WorkerLoopIgnoresStop(w) == wpc' = [wpc EXCEPT ![w] = "get"]

\* "while self.running" of MessageProcessor.worker
WorkerLoop(w) == wpc' = [wpc EXCEPT ![w] = IF prunning THEN "get" ELSE "done"]

\* a worker that an exception of handle_message ends
AfterHandleDies(w, raised) ==
  /\ IF raised THEN wpc' = [wpc EXCEPT ![w] = "done"] ELSE WorkerLoop(w)
  /\ unfinished' = unfinished - 1

\* a worker whose task_done is not in a finally clause: an exception of
\* handle_message skips it
AfterHandleNoAck(w, raised) ==
  /\ WorkerLoop(w)
  /\ unfinished' = IF raised THEN unfinished ELSE unfinished - 1

\* Lines 144-149 once handle_message is over: an Exception it raised is
\* caught and logged, the item is acknowledged, the loop goes on.
AfterHandle(w, raised) ==
  /\ WorkerLoop(w)
  /\ unfinished' = unfinished - 1

\* a decoder that takes any payload
ParsesAnything(m) == TRUE

\* json.loads(message) returns
Parses(m) == m.kind # "garbage"

\* data.get(...) works: the decoded value is a JSON object
IsObject(m) == m.kind # "nonobject"

\* handle_message without its lock
LockAlwaysFree == TRUE

\* asyncio.Lock.acquire() returns without suspending
LockFree == lock = 0 /\ waiters = <<>>

\* Worker w, holding the lock, runs handle_message up to its next await:
\* json.loads, process_message, index_data up to es_client.index(...).
\* A message that ends here is acknowledged (task_done) and the loop goes on.
Handle(w, it) ==
  LET m == it.m IN
  IF Parses(m) /\ IsObject(m) /\ is_language_allowed(language_filter, m.langs)
  THEN \* es_client.index is awaited with the lock held
       /\ wpc' = [wpc EXCEPT ![w] = "write"]
       /\ witem' = [witem EXCEPT ![w] = it]
       /\ lock' = w
       /\ nwrites' = [nwrites EXCEPT ![it.n] = @ + 1]
       /\ fate' = [fate EXCEPT ![it.n] = "writing"]
       /\ UNCHANGED <<unfinished, logged>>
  ELSE /\ AfterHandle(w, Parses(m) /\ ~IsObject(m))
       /\ witem' = [witem EXCEPT ![w] = NoItem]
       /\ lock' = 0
       /\ fate' = [fate EXCEPT ![it.n] =
                     CASE ~Parses(m) -> "malformed"     \* logged at line 162
                       [] ~IsObject(m) -> "error"       \* logged at line 147
                       [] OTHER -> "filtered"]          \* line 172, no log
       /\ logged' = [logged EXCEPT ![it.n] = ~Parses(m) \/ ~IsObject(m)]
       /\ UNCHANGED nwrites

\* the worker task runs for the first time
WorkerStart(w) ==
  /\ wpc[w] = "start" /\ ~cancelReq[w]
  /\ WorkerLoop(w)
  /\ UNCHANGED <<prunning, lock, waiters, witem, store>>
  /\ UNCHANGED <<cvars, qvars, mvars, cancelReq, cfg, hcvars, recvLog, hmvars>>

\* message_queue.get() returns an item; handle_message takes the lock or
\* suspends in its acquire
WorkerGet(w) ==
  /\ wpc[w] = "get" /\ ~cancelReq[w]
  /\ queue # <<>>
  /\ queue' = Tail(queue)
  /\ IF LockFree
     THEN Handle(w, Head(queue)) /\ UNCHANGED waiters
     ELSE /\ wpc' = [wpc EXCEPT ![w] = "lock"]
          /\ witem' = [witem EXCEPT ![w] = Head(queue)]
          /\ waiters' = Append(waiters, w)
          /\ fate' = [fate EXCEPT ![Head(queue).n] = "handling"]
          /\ UNCHANGED <<lock, unfinished, nwrites, logged>>
  /\ UNCHANGED <<prunning, store, lastWrite>>
  /\ UNCHANGED <<cvars, mvars, cancelReq, cfg, hcvars, recvLog>>

\* wait_for(get, timeout=1.0) times out on an empty queue: continue
WorkerTimeout(w) ==
  /\ wpc[w] = "get" /\ ~cancelReq[w]
  /\ queue = <<>>
  /\ WorkerLoop(w)
  /\ UNCHANGED <<prunning, lock, waiters, witem, store>>
  /\ UNCHANGED <<cvars, qvars, mvars, cancelReq, cfg, hcvars, recvLog, hmvars>>

\* the first waiter of the lock is woken and goes on in handle_message
LockAcquire(w) ==
  /\ wpc[w] = "lock" /\ ~cancelReq[w]
  /\ lock = 0 /\ waiters # <<>> /\ Head(waiters) = w
  /\ waiters' = Tail(waiters)
  /\ Handle(w, witem[w])
  /\ UNCHANGED <<prunning, store, queue, lastWrite>>
  /\ UNCHANGED <<cvars, mvars, cancelReq, cfg, hcvars, recvLog>>

\* es_client.index returns (ok) or raises (caught and logged at line 202);
\* the lock is released, the item acknowledged, the loop goes on
WriteDone(w, ok) ==
  /\ wpc[w] = "write" /\ ~cancelReq[w]
  /\ store' = IF ok THEN Upsert(store, DocId(witem[w].m), Enrich(witem[w].m)) ELSE store
  /\ lastWrite' = IF ok THEN witem[w].n ELSE lastWrite
  /\ fate' = [fate EXCEPT ![witem[w].n] = IF ok THEN "written" ELSE "failed"]
  /\ logged' = [logged EXCEPT ![witem[w].n] = ~ok]
  /\ lock' = 0
  /\ witem' = [witem EXCEPT ![w] = NoItem]
  /\ AfterHandle(w, FALSE)
  /\ UNCHANGED <<prunning, waiters, queue, nwrites>>
  /\ UNCHANGED <<cvars, mvars, cancelReq, cfg, hcvars, recvLog>>

\* a lock that a cancelled holder keeps
LockKeptOnCancel(w) == lock

\* the lock once CancelledError has left handle_message in worker w:
\* "async with self.lock" releases it if w held it
LockAfterCancel(w) == IF wpc[w] = "write" THEN 0 ELSE lock

\* CancelledError is raised in worker w.  In the get it is caught at line
\* 152.  In handle_message it passes "except Exception" (lines 146, 202):
\* the lock is given up, the finally clause acknowledges the item, line 152
\* catches it.  A sink write it interrupts may or may not have been applied.
WorkerCancelled(w) ==
  /\ cancelReq[w]
  /\ wpc[w] \in {"start", "get", "lock", "write"}
  /\ cancelReq' = [cancelReq EXCEPT ![w] = FALSE]
  /\ wpc' = [wpc EXCEPT ![w] = IF wpc[w] = "start" THEN "cancelled" ELSE "broke"]
  /\ witem' = [witem EXCEPT ![w] = NoItem]
  /\ waiters' = SelectSeq(waiters, LAMBDA x : x # w)
  /\ lock' = LockAfterCancel(w)
  /\ unfinished' = IF wpc[w] \in {"lock", "write"} THEN unfinished - 1 ELSE unfinished
  /\ fate' = IF wpc[w] \in {"lock", "write"}
             THEN [fate EXCEPT ![witem[w].n] = "cancelled"] ELSE fate
  /\ IF wpc[w] = "write"
     THEN \E applied \in BOOLEAN :
            IF applied
            THEN /\ store' = Upsert(store, DocId(witem[w].m), Enrich(witem[w].m))
                 /\ lastWrite' = witem[w].n
            ELSE UNCHANGED <<store, lastWrite>>
     ELSE UNCHANGED <<store, lastWrite>>
  /\ UNCHANGED <<prunning, queue, nwrites, logged>>
  /\ UNCHANGED <<cvars, mvars, cfg, hcvars, recvLog>>

\* ------------------------------------------------------ main and shutdown
TaskEnded(t) ==
  IF t = ClientTask THEN cpc \in {"done", "cancelled"}
  ELSE wpc[t] \in {"done", "broke", "cancelled"}

\* for task in tasks: task.cancel()  (no effect on a task that has ended)
CancelAll == [t \in Tasks |-> IF TaskEnded(t) THEN cancelReq[t] ELSE TRUE]

\* gather(client_task, *processor_tasks) raises in main after it was
\* cancelled: once a task has ended cancelled, or all have ended
GatherRaised ==
  \/ cpc = "cancelled"
  \/ \E w \in Workers : wpc[w] = "cancelled"
  \/ \A t \in Tasks : TaskEnded(t)

\* main() is cancelled while it awaits gather (line 261): gather cancels
\* the tasks.
MainCancelled ==
  /\ mpc = "running"
  /\ cancelReq' = CancelAll
  /\ mpc' = "cancelling"
  /\ UNCHANGED <<session_closes, es_closes>>
  /\ UNCHANGED <<cvars, qvars, wvars, cfg, hcvars, recvLog, hmvars>>

\* shutdown(client, processor, tasks) up to its first suspension:
\* client.stop(), then processor.stop() up to its await of session.close().
\* It is called on the running tasks it is there to stop, or by the finally
\* clause of main once the cancelled gather has raised.
ShutdownStop ==
  /\ \/ mpc = "running"
     \/ mpc = "cancelling" /\ GatherRaised
  /\ running' = FALSE
  /\ prunning' = FALSE
  /\ session_closes' = session_closes + 1
  /\ mpc' = "session_close"
  /\ UNCHANGED <<current_url_index, retry_delay, delay, cpc, citem, cexc>>
  /\ UNCHANGED <<lock, waiters, wpc, witem, store, es_closes>>
  /\ UNCHANGED <<qvars, cancelReq, cfg, hcvars, recvLog, hmvars>>

\* session.close() has returned: shutdown cancels every task and awaits
\* gather(*tasks, return_exceptions=True)
ShutdownCancel ==
  /\ mpc = "session_close"
  /\ cancelReq' = CancelAll
  /\ mpc' = "gather"
  /\ UNCHANGED <<session_closes, es_closes>>
  /\ UNCHANGED <<cvars, qvars, wvars, cfg, hcvars, recvLog, hmvars>>

\* every task has ended: shutdown returns, main closes the store client
\* and leaves "async with aiohttp.ClientSession()", which closes the session
MainRelease ==
  /\ mpc = "gather"
  /\ \A t \in Tasks : TaskEnded(t)
  /\ es_closes' = es_closes + 1
  /\ session_closes' = session_closes + 1
  /\ mpc' = "stopped"
  /\ UNCHANGED <<cvars, qvars, wvars, cancelReq, cfg, hcvars, recvLog, hmvars>>

\* shutdown(client, processor, tasks) is called a second time after main
\* has ended: nothing in it tests whether it has run before.  The flags are
\* assigned again, processor.stop() closes the session again, cancel() has
\* no effect on the ended tasks and gather returns their results.
ShutdownAgain ==
  /\ mpc = "stopped"
  /\ running' = FALSE
  /\ prunning' = FALSE
  /\ session_closes' = session_closes + 1
  /\ cancelReq' = CancelAll
  /\ mpc' = "stopped_again"
  /\ UNCHANGED <<current_url_index, retry_delay, delay, cpc, citem, cexc>>
  /\ UNCHANGED <<lock, waiters, wpc, witem, store, es_closes>>
  /\ UNCHANGED <<qvars, cfg, hcvars, recvLog, hmvars>>

\* ------------------------------------------------------------ specification
ConnectFailKinds == {"timeout", "invalid_status", "os_error"}
StreamEndKinds == {"clean", "closed_error", "exception"}

WorkerStep ==
  \/ \E w \in Workers : WorkerStart(w)
  \/ \E w \in Workers : WorkerGet(w)
  \/ \E w \in Workers : WorkerTimeout(w)
  \/ \E w \in Workers : LockAcquire(w)
  \/ \E w \in Workers, ok \in BOOLEAN : WriteDone(w, ok)
  \/ \E w \in Workers : WorkerCancelled(w)

MainStep ==
  \/ MainCancelled
  \/ ShutdownStop
  \/ ShutdownCancel
  \/ MainRelease

\* Spec: the pipeline under a burst of messages on a connection that stays up
Next ==
  \/ ClientStart
  \/ ConnectOK
  \/ \E m \in Messages : Receive(m)
  \/ PutResume
  \/ SleepDone
  \/ ClientCancelled
  \/ WorkerStep
  \/ MainStep

Spec == Init /\ [][Next]_vars

\* ConnSpec: the pipeline on an unreliable upstream.  Its single message
\* never finds the queue full nor the lock taken.
ConnNext ==
  \/ ClientStart
  \/ ConnectOK
  \/ \E k \in ConnectFailKinds : ConnectFail(k)
  \/ \E k \in StreamEndKinds : StreamEnd(k)
  \/ \E m \in Messages : Receive(m)
  \/ SleepDone
  \/ ClientCancelled
  \/ \E w \in Workers : WorkerStart(w)
  \/ \E w \in Workers : WorkerGet(w)
  \/ \E w \in Workers : WorkerTimeout(w)
  \/ \E w \in Workers, ok \in BOOLEAN : WriteDone(w, ok)
  \/ \E w \in Workers : WorkerCancelled(w)
  \/ MainStep

ConnSpec == ConnInit /\ [][ConnNext]_vars

\* the run loop and the shutdown alone: no message ever arrives
LoopNext ==
  \/ ClientStart
  \/ ConnectOK
  \/ \E k \in ConnectFailKinds : ConnectFail(k)
  \/ \E k \in StreamEndKinds : StreamEnd(k)
  \/ SleepDone
  \/ ClientCancelled
  \/ \E w \in Workers : WorkerStart(w)
  \/ \E w \in Workers : WorkerTimeout(w)
  \/ \E w \in Workers : WorkerCancelled(w)
  \/ MainStep

LoopSpec == LoopInit /\ [][LoopNext]_vars

\* asyncio.sleep(delay) returns after at most 61 seconds and the event loop
\* then resumes the connection task
FairLoopSpec == LoopSpec /\ WF_vars(SleepDone)

PostSpec == PostInit /\ [][Next]_vars

FaultSpec == FaultInit /\ [][Next]_vars

MixedSpec == MixedInit /\ [][Next]_vars

\* the pipeline with a burst that a reconnect interrupts
ResumeNext ==
  \/ Next
  \/ \E k \in ConnectFailKinds : ConnectFail(k)
  \/ \E k \in StreamEndKinds : StreamEnd(k)

ResumeSpec == ResumeInit /\ [][ResumeNext]_vars

\* the pipeline of Spec with a second stop request after the first
AgainNext == Next \/ ShutdownAgain

AgainSpec == Init /\ [][AgainNext]_vars

\* The event loop runs every task that is ready: a created worker starts,
\* wait_for(get, timeout=1.0) returns an item or times out, the first waiter
\* of a free lock gets it, and es_client.index returns or raises.
WorkerFairness ==
  \A w \in Workers :
    /\ WF_vars(WorkerStart(w))
    /\ WF_vars(WorkerGet(w) \/ WorkerTimeout(w))
    /\ WF_vars(LockAcquire(w))
    /\ WF_vars(\E ok \in BOOLEAN : WriteDone(w, ok))

FairFaultSpec == FaultSpec /\ WorkerFairness

\* ... and a put suspended on a full queue resumes once there is room
FairPipelineSpec == FairFaultSpec /\ WF_vars(PutResume)


\* ================================================================== claims
Last(seq) == seq[Len(seq)]

\* the failures in a row before the one that led to the current wait
PriorFails == IF fails = 0 THEN 0 ELSE fails - 1

\* C1: while run waits before a reconnect attempt, the base delay is
\* min(1 * 2^k, 60) for k the consecutive failures before this one, and 1
\* after a successful connection; the jitter added is within [0, 1].
C1_BackoffFollowsFailures ==
  (cpc = "sleep" /\ ~cexc) =>
     /\ retry_delay = Min(InitialDelay * Pow(2, PriorFails), BackoffCap)
     /\ delay - retry_delay * JitterScale \in 0..JitterScale

\* C2: every attempt that ends advances current_url_index by one modulo the
\* pool size, attempts visit the pool in order from its first endpoint, the
\* index is a position of the pool, and NumUrls attempts in a row visit
\* every endpoint.
C2_RoundRobin ==
  /\ current_url_index \in 0..(NumUrls - 1)
  /\ \A i \in 1..(Len(attempts) - 1) : attempts[i + 1] = (attempts[i] + 1) % NumUrls
  /\ (attempts # <<>> /\ Len(attempts) < NumUrls) => attempts[1] = 0
  /\ Len(attempts) = NumUrls => {attempts[i] : i \in 1..NumUrls} = 0..(NumUrls - 1)
  /\ cpc \in {"connect", "listen", "put"} => current_url_index = Last(attempts)
  /\ cpc = "sleep" => current_url_index = (Last(attempts) + 1) % NumUrls

\* five attempts have been made: the fifth is on the first endpoint again
C2_Witness == attempts = <<1, 2, 3, 0>> /\ cpc = "connect"

\* what a step of the connection task may do to a message whose put is
\* suspended: leave it suspended, or enqueue it
PutKeepsMessage ==
  cpc = "put" =>
     \/ cpc' = "put" /\ citem' = citem /\ Len(queue') <= Len(queue)
     \/ cpc' = "listen" /\ queue' = Append(queue, citem)

\* the connection task is cancelled while its put is suspended
PutCancelled == cpc = "put" /\ cancelReq[ClientTask] /\ cpc' = "sleep" /\ cexc'

\* a message received goes to the queue at once if there is room, and
\* otherwise stays in hand with the connection task suspended
ReceivePuts ==
  Len(recvLog') > Len(recvLog) =>
     LET it == [n |-> Len(recvLog'), m |-> Last(recvLog')] IN
     IF Len(queue) >= MaxQueue
     THEN cpc' = "put" /\ citem' = it /\ queue' = queue
     ELSE cpc' = "listen" /\ queue' = Append(queue, it)

\* C3 as stated: the queue never exceeds its capacity; a message received
\* on a full queue suspends the connection task until there is room and is
\* then enqueued, never dropped, and put never raises.
C3_PutNeverDrops ==
  /\ [](Len(queue) <= MaxQueue)
  /\ [][ReceivePuts /\ PutKeepsMessage]_vars

\* C3 amended: as C3, unless the connection task is cancelled while its put
\* is suspended: then put raises CancelledError and the message is lost.
C3_PutDropsOnlyOnCancel ==
  /\ [](Len(queue) <= MaxQueue)
  /\ [][ReceivePuts /\ (PutKeepsMessage \/ PutCancelled)]_vars

\* a message that was suspended on a full queue has been enqueued
C3_Witness ==
  /\ Len(recvLog) = MaxQueue + 1
  /\ Len(queue) = MaxQueue
  /\ Last(queue).n = MaxQueue + 1
  /\ cpc = "listen"


\* the event's languages share nothing with a non-empty allow-list
Disjoint(m) == language_filter # {} /\ m.langs \cap language_filter = {}

\* C4: an event whose langs (absent: empty) share nothing with a non-empty
\* allow-list gets no sink write; any other event that process_message
\* handles gets exactly one.
C4_LanguageFilter ==
  \A n \in 1..Len(recvLog) :
    recvLog[n].kind = "event" =>
      /\ nwrites[n] <= 1
      /\ Disjoint(recvLog[n]) => nwrites[n] = 0
      /\ (~Disjoint(recvLog[n]) /\ fate[n] \in {"writing", "written", "failed", "filtered"})
           => (nwrites[n] = 1 /\ fate[n] # "filtered")

\* with the allow-list {"en"}: an event in {"nl"} was filtered out and an
\* event in {"en", "fr"} was written
C4_Witness ==
  /\ language_filter = {"en"}
  /\ \E n1, n2 \in 1..Len(recvLog) :
       /\ recvLog[n1].langs = {"nl"} /\ fate[n1] = "filtered" /\ nwrites[n1] = 0
       /\ recvLog[n2].langs = {"en", "fr"} /\ fate[n2] = "written"

\* the cid of an event, as index_data reads it
HasCid(e) == e.cid # Absent /\ e.cid # ""

\* two events the claim calls the same delivery key
SameKey(e1, e2) ==
  \/ HasCid(e1) /\ HasCid(e2) /\ e1.cid = e2.cid
  \/ ~HasCid(e1) /\ ~HasCid(e2) /\ e1.did = e2.did /\ e1.time_us = e2.time_us

\* C5: the id is the cid when present, else made of did and time_us; the
\* store holds one document per id, no two documents for deliveries of the
\* same cid (or the same did and time_us without cid), and the content of
\* the latest write.
C5_OneDocumentPerKey ==
  /\ \A d \in store : HasCid(d.doc.event) => d.id = d.doc.event.cid
  /\ \A d1, d2 \in store : d1.id = d2.id => d1 = d2
  /\ \A d1, d2 \in store : SameKey(d1.doc.event, d2.doc.event) => d1.id = d2.id
  /\ lastWrite # 0 => \E d \in store : d.doc.event = recvLog[lastWrite]

\* two events with the cid "c1" and different content were both written:
\* one document is left, that of the second write
C5_Witness ==
  /\ Len(recvLog) >= 2
  /\ recvLog[1].cid = "c1" /\ recvLog[2].cid = "c1" /\ recvLog[1].body # recvLog[2].body
  /\ fate[1] = "written" /\ fate[2] = "written" /\ lastWrite = 2
  /\ Cardinality(store) = 1

\* C6: a payload that is not JSON gets no sink write, and the step that
\* drops it ends no worker: unless the stop flag is set, a worker is back
\* in its get.
C6_MalformedSkipped ==
  /\ [](\A n \in 1..Len(recvLog) : recvLog[n].kind = "garbage" => nwrites[n] = 0)
  /\ [][\A n \in Seqnos :
          (fate[n] # "malformed" /\ fate'[n] = "malformed" /\ prunning) =>
             /\ \A w \in Workers : wpc'[w] \in {"done", "broke", "cancelled"} => wpc'[w] = wpc[w]
             /\ \E w \in Workers : wpc[w] \in {"get", "lock"} /\ wpc'[w] = "get"]_vars

\* one worker alone dropped a malformed payload and then wrote the next event
C6_Witness ==
  /\ Len(recvLog) >= 2
  /\ recvLog[1].kind = "garbage" /\ fate[1] = "malformed" /\ fate[2] = "written"
  /\ \E w \in Workers : wpc[w] = "get" /\ \A v \in Workers \ {w} : wpc[v] = "start"

\* worker w has just failed on message n
FailedOn(w, n) ==
  /\ fate'[n] \in {"failed", "error", "malformed"} /\ fate[n] # fate'[n]
  /\ \/ wpc[w] \in {"lock", "write"} /\ witem[w].n = n
     \/ wpc[w] = "get" /\ wpc'[w] # "get"

\* C7: a worker leaves its loop only with the stop flag set or through a
\* cancellation; after a sink failure or an exception of handle_message it
\* is back in its get.
C7_WorkerSurvivesFailures ==
  [][\A w \in Workers :
       /\ (wpc'[w] # wpc[w] /\ wpc'[w] = "done") => ~prunning
       /\ (wpc'[w] # wpc[w] /\ wpc'[w] \in {"broke", "cancelled"}) => cancelReq[w]
       /\ \A n \in Seqnos : (FailedOn(w, n) /\ prunning) => wpc'[w] = "get"]_vars

\* an exception of process_message and a sink failure have happened and
\* every worker that has run is in its get
C7_Witness ==
  /\ prunning
  /\ \E n1, n2 \in Seqnos : fate[n1] = "error" /\ fate[n2] = "failed"
  /\ \A w \in Workers : wpc[w] \in {"start", "get"}
  /\ \A t \in Tasks : ~cancelReq[t]


\* C8: the run loop ends only with the stop flag set or through a
\* cancellation, and each wait that follows the end of an attempt leads to
\* a new attempt on the endpoint the rotation chose, unless a stop or a
\* cancellation comes first.
C8_RunLoopReconnects ==
  /\ [](cpc = "done" => ~running)
  /\ [][(cpc' # cpc /\ cpc' \in {"done", "cancelled"})
          => (~running \/ cancelReq[ClientTask] \/ cexc)]_vars
  /\ \A i \in 0..(NumUrls - 1) :
       (cpc = "sleep" /\ ~cexc /\ current_url_index = i)
         ~> \/ cpc = "connect" /\ current_url_index = i /\ Last(attempts) = i
            \/ ~running
            \/ cancelReq[ClientTask]
            \/ cpc = "cancelled"

\* after three attempts that ended, the fourth is under way, with no stop
\* and no cancellation
C8_Witness ==
  /\ cpc = "connect" /\ attempts = <<0, 1, 2, 3>> /\ fails = 2
  /\ running /\ ~cancelReq[ClientTask] /\ mpc = "running"

C10_StopEndsRunLoop ==
  [][~running =>
       /\ attempts' = attempts
       /\ cpc' = "connect" => cpc = "connect"
       /\ (cpc \in {"start", "sleep"} /\ cpc' # cpc /\ ~cancelReq[ClientTask] /\ ~cexc)
            => cpc' = "done"]_vars

\* the run loop has ended by itself after a wait, before shutdown cancelled
\* any task
C10_Witness ==
  /\ cpc = "done" /\ attempts # <<>> /\ ~running
  /\ mpc = "session_close" /\ ~cancelReq[ClientTask]


\* C11: once MessageProcessor.stop() has set the flag no worker goes back to
\* its get, so none dequeues more than one further message; a worker that is
\* not cancelled leaves a timed-out get, or the message in hand once it is
\* handled, by ending; and every worker ends by itself unless a cancellation
\* reaches it first.
C11_StopEndsWorkers ==
  /\ [][~prunning =>
          \A w \in Workers :
            /\ wpc'[w] = "get" => wpc[w] = "get"
            /\ (wpc'[w] # wpc[w] /\ ~cancelReq[w] /\ wpc'[w] \notin {"lock", "write"})
                 => wpc'[w] = "done"]_vars
  /\ (~prunning) ~>
        \A w \in Workers : wpc[w] \in {"done", "broke", "cancelled"} \/ cancelReq[w]

\* the flag is set, no task was cancelled, and every worker has ended by
\* itself, one after a write, leaving a message in the queue
C11_Witness ==
  /\ ~prunning /\ mpc = "session_close"
  /\ \A t \in Tasks : ~cancelReq[t]
  /\ \A w \in Workers : wpc[w] = "done"
  /\ fate[1] = "written" /\ queue # <<>>


\* C12: shutdown interrupts no sink write: a worker leaves a write it has
\* started only with the write completed, applied or failed and logged, and
\* no task is cancelled while a write is in flight.
C12_NoWriteInterrupted ==
  [][\A w \in Workers :
       /\ (wpc[w] = "write" /\ wpc'[w] # "write")
            => fate'[witem[w].n] \in {"written", "failed"}
       /\ (wpc[w] = "write" /\ ~cancelReq[w]) => ~cancelReq'[w]]_vars


\* C13: the HTTP session and the store client are closed only once the
\* connection task and every worker task have ended.
C13_ReleaseAfterTasksEnd ==
  [][(session_closes' > session_closes \/ es_closes' > es_closes)
       => \A t \in Tasks : TaskEnded(t)]_vars


\* C14: in a run of main that ends in shutdown the close operation of the
\* HTTP session and that of the store client are each invoked once: never
\* twice, and once when main has ended.
C14_ReleasedOnce ==
  /\ session_closes <= 1 /\ es_closes <= 1
  /\ mpc = "stopped" => (session_closes = 1 /\ es_closes = 1)


\* C15: a second stop request after the first has completed is a no-op: it
\* changes no state and performs no further stop, cancel or release action.
C15_SecondStopIsNoOp ==
  [][mpc = "stopped" =>
       UNCHANGED <<running, prunning, cancelReq, session_closes, es_closes>>]_vars


\* the handling of message n by a worker is over
Handled(n) == fate[n] \in {"written", "failed", "filtered", "malformed", "error"}

\* C16: a message whose handling is over had one sink write issued, or none
\* and a log line that gives the reason of the drop; no message has more
\* than one write, and none is back in the queue once it was dequeued.
C16_WrittenOrLogged ==
  \A n \in 1..Len(recvLog) :
    /\ nwrites[n] <= 1
    /\ Handled(n) => (nwrites[n] = 1 \/ logged[n])
    /\ fate[n] \notin {"none", "inhand", "queued"}
         => \A i \in 1..Len(queue) : queue[i].n # n


\* message n has been taken from the queue by a worker
Dequeued(n) == fate[n] \notin {"none", "inhand", "queued", "lost"}

NDequeued == Cardinality({n \in 1..Len(recvLog) : Dequeued(n)})

\* the messages dequeued so far are the first NDequeued received, the queue
\* holds the ones that follow, each once, unchanged and in receipt order,
\* and a worker holds the message it dequeued unchanged
PrefixInOrder ==
  LET k == NDequeued IN
  /\ \A n \in 1..Len(recvLog) : Dequeued(n) <=> n <= k
  /\ k + Len(queue) <= Len(recvLog)
  /\ \A i \in 1..Len(queue) : queue[i] = [n |-> k + i, m |-> recvLog[k + i]]
  /\ \A w \in Workers : witem[w] # NoItem => witem[w].m = recvLog[witem[w].n]
  /\ Len(recvLog) <= k + Len(queue) + 1

\* the last message received is the one whose put is suspended
LastInHand == cpc = "put" /\ citem = [n |-> Len(recvLog), m |-> Last(recvLog)]

Handling == {w \in Workers : wpc[w] \in {"lock", "write"}}

\* C18: every item got from the queue is acknowledged once, on every path,
\* and nothing else is: the outstanding-item count of the queue is the
\* number of queued items plus the number of items being handled, it is
\* never negative, and it is zero when the queue is empty and no worker
\* holds an item.
C18_TaskDoneOncePerItem ==
  /\ unfinished = Len(queue) + Cardinality(Handling)
  /\ unfinished >= 0
  /\ \A w \in Workers : (witem[w] # NoItem) <=> (w \in Handling)
  /\ (queue = <<>> /\ Handling = {}) => unfinished = 0

\* both messages of the burst were handled, one of them by an exception of
\* process_message, the workers are back in their get and nothing is
\* outstanding
C18_Witness ==
  /\ Len(recvLog) = MaxQueue + 1
  /\ \E n \in Seqnos : fate[n] = "error"
  /\ \A n \in Seqnos : Handled(n)
  /\ \A w \in Workers : wpc[w] = "get"
  /\ unfinished = 0


\* C19: retry_delay is always between the initial 1 s and the cap of 60 s,
\* and every wait of run is retry_delay plus a jitter in [0, 1], hence
\* between 1 s and 61 s (delay counts 1/JitterScale seconds).
C19_DelayWithinBounds ==
  /\ retry_delay \in InitialDelay..BackoffCap
  /\ cpc = "sleep" =>
        /\ delay - retry_delay * JitterScale \in 0..JitterScale
        /\ delay >= InitialDelay * JitterScale
        /\ delay <= (BackoffCap + 1) * JitterScale

\* run waits after MaxFails failed attempts in a row, with the largest jitter
C19_Witness ==
  /\ cpc = "sleep" /\ ~cexc /\ fails = MaxFails
  /\ delay = retry_delay * JitterScale + JitterScale


\* the workers inside the locked section of handle_message
InHandle == {w \in Workers : wpc[w] = "write"}

\* C20: at most one worker is inside the parse / filter / enrich / write
\* sequence, it is the holder of the lock, at most one sink write is in
\* flight, and every other worker with a message in hand waits for the lock.
C20_OneWorkerInHandle ==
  /\ Cardinality(InHandle) <= 1
  /\ \A w \in Workers : (lock = w) <=> (w \in InHandle)
  /\ Cardinality({n \in Seqnos : fate[n] = "writing"}) <= 1
  /\ \A w \in Workers : (wpc[w] = "lock") <=> (\E i \in 1..Len(waiters) : waiters[i] = w)

\* one worker is in its sink write and another, with the next message in
\* hand, waits for the lock
C20_Witness ==
  \E w, v \in Workers :
    /\ wpc[w] = "write" /\ lock = w
    /\ wpc[v] = "lock" /\ waiters = <<v>> /\ witem[v].m.kind = "event"


\* C21: the lock is held only by a worker inside handle_message and is
\* released on every exit from it; and while the pipeline runs (no stop, no
\* cancellation), with fair scheduling and a sink that always returns, every
\* queued message is eventually dequeued and handled and a put suspended on
\* a full queue eventually resumes.
C21_NoDeadlock ==
  /\ [](lock # 0 => wpc[lock] = "write")
  /\ [][\A w \in Workers : (lock = w /\ wpc'[w] # "write") => lock' # w]_vars
  /\ \A n \in Seqnos : (fate[n] = "queued") ~> (Handled(n) \/ mpc # "running")
  /\ (cpc = "put") ~> (cpc = "listen" \/ mpc # "running")

\* the pipeline is still running and the whole burst has been handled, with
\* a sink failure and a malformed payload; the lock is free
C21_Witness ==
  /\ mpc = "running" /\ lock = 0 /\ waiters = <<>>
  /\ Len(recvLog) = MaxQueue + 1 /\ queue = <<>> /\ cpc = "listen"
  /\ fate[1] = "failed" /\ fate[2] = "malformed"

====
